---------------------------- MODULE Spec2Model ----------------------------
(***************************************************************************)
(* Wick contraction engine of contraction.py: Operator, Propagator,        *)
(* Diagram and the function contraction(operators, LSZ_reduction), with    *)
(* its nested recursive function contract run as an explicit stack of      *)
(* frames.                                                                 *)
(*                                                                         *)
(* Labels (pos) and particle types are strings in the program; here they   *)
(* are numbered so that the order of the numbers is the order of the       *)
(* strings.  Indices written i are the program's 0-based list indices; At  *)
(* reads a list at such an index.                                          *)
(*                                                                         *)
(* outer_vertices and inner_vertices are tuple(set(...)) in the program:   *)
(* the order of such a tuple is the set's iteration order, which the       *)
(* program does not fix.  The model keeps the set of labels; all Diagrams  *)
(* of one call hold the same two tuples, so within a call equal label sets *)
(* are equal tuples.  Nothing is concluded here about tuple order across   *)
(* calls.                                                                  *)
(***************************************************************************)
EXTENDS Integers, Sequences, FiniteSets

VARIABLES
    operators,                 \* the list object passed to contraction
    is_list,                   \* isinstance(operators, list)
    LSZ_reduction,             \* the flag passed to contraction
    pc,                        \* where the call stands
    inner_vertices,
    outer_vertices,
    stack,                     \* the frames of contract, innermost last
    all_possible_contraction,
    return_list,
    error,                     \* the exception a raised call ended with
    call,                      \* 1, or 2 for the second call of the swap test
    first_input,               \* swap test: the first call's list as written
    swapped_at,                \* swap test: 0-based index of the swapped pair
    first_outcome              \* swap test: how the first call ended

vars == <<operators, is_list, LSZ_reduction, pc, inner_vertices,
          outer_vertices, stack, all_possible_contraction, return_list,
          error, call, first_input, swapped_at, first_outcome>>

-----------------------------------------------------------------------------
(* Bounds of the inputs *)

MaxLen == 4
LongLen == 6

-----------------------------------------------------------------------------
(* Python list helpers *)

At(s, i) == s[i + 1]

\* s[a:b] for 0 <= a, b <= len(s)
Slice(s, a, b) == SubSeq(s, a + 1, b)

BoolLt(a, b) == ~a /\ b

-----------------------------------------------------------------------------
(* class Operator *)

\* __post_init__ admits the charges 1, -1 and 0 only; the inputs built below
\* hold no other.
Operator(pos, type, charge, fermionic, external) ==
    [pos |-> pos, type |-> type, charge |-> charge,
     fermionic |-> fermionic, external |-> external]

\* An element of the input that is no Operator: a value with no attribute
\* charge (a str, an int).
NotAnOperator == [junk |-> TRUE]

IsOperator(op) == "charge" \in DOMAIN op

\* order=True: the fields compared as the tuple
\* (pos, type, charge, fermionic, external)
OperatorLt(a, b) ==
    \/ a.pos < b.pos
    \/ a.pos = b.pos /\ a.type < b.type
    \/ a.pos = b.pos /\ a.type = b.type /\ a.charge < b.charge
    \/ a.pos = b.pos /\ a.type = b.type /\ a.charge = b.charge
       /\ BoolLt(a.fermionic, b.fermionic)
    \/ a.pos = b.pos /\ a.type = b.type /\ a.charge = b.charge
       /\ a.fermionic = b.fermionic /\ BoolLt(a.external, b.external)

\* the list left as the caller wrote it
SortForgotten(s) == s

\* operators.sort(): ties in the order are identical Operators, so the
\* element at place k is the one with k - 1 elements before it.
SortOperators(s) ==
    LET n == Len(s)
        Rank(j) == Cardinality({m \in 1..n :
                        OperatorLt(s[m], s[j]) \/ (s[m] = s[j] /\ m <= j)})
    IN [k \in 1..n |-> s[CHOOSE j \in 1..n : Rank(j) = k]]

can_contract_with(self, other) ==
    /\ self.type = other.type
    /\ self.fermionic = other.fermionic
    /\ self.charge + other.charge = 0

Propagator(type, initial, final, arrow) ==
    [type |-> type, initial |-> initial, final |-> final, arrow |-> arrow]

\* Operator.__add__ where it does not raise
Add(self, other) ==
    IF self.charge = 1 /\ other.charge = -1
    THEN Propagator(self.type, self.pos, other.pos, TRUE)
    ELSE IF self.charge = -1 /\ other.charge = 1
    THEN Propagator(self.type, other.pos, self.pos, TRUE)
    ELSE Propagator(self.type, self.pos, other.pos, FALSE)

-----------------------------------------------------------------------------
(* class Propagator, class Diagram *)

\* order=True: the fields compared as the tuple (type, initial, final, arrow)
PropagatorLt(a, b) ==
    \/ a.type < b.type
    \/ a.type = b.type /\ a.initial < b.initial
    \/ a.type = b.type /\ a.initial = b.initial /\ a.final < b.final
    \/ a.type = b.type /\ a.initial = b.initial /\ a.final = b.final
       /\ BoolLt(a.arrow, b.arrow)

\* sorted(self.propagators)
SortPropagators(s) ==
    LET n == Len(s)
        Rank(j) == Cardinality({m \in 1..n :
                        PropagatorLt(s[m], s[j]) \/ (s[m] = s[j] /\ m <= j)})
    IN [k \in 1..n |-> s[CHOOSE j \in 1..n : Rank(j) = k]]

\* Propagator.__eq__
PropagatorEq(self, other) ==
    IF self.type # other.type \/ self.arrow # other.arrow
    THEN FALSE
    ELSE IF self.arrow
    THEN <<self.initial, self.final>> = <<other.initial, other.final>>
    ELSE \/ <<self.initial, self.final>> = <<other.initial, other.final>>
         \/ <<self.initial, self.final>> = <<other.final, other.initial>>

\* Diagram(...) with __post_init__: the propagators sorted
Diagram(outer, inner, propagators) ==
    [outer_vertices |-> outer, inner_vertices |-> inner,
     propagators |-> SortPropagators(propagators)]

\* the dataclass __eq__ of Diagram: the three fields as tuples, the
\* propagators element by element with Propagator.__eq__
DiagramEq(d, e) ==
    /\ d.outer_vertices = e.outer_vertices
    /\ d.inner_vertices = e.inner_vertices
    /\ Len(d.propagators) = Len(e.propagators)
    /\ \A k \in 1..Len(d.propagators) :
           PropagatorEq(d.propagators[k], e.propagators[k])

-----------------------------------------------------------------------------
(* The exceptions a call can end with *)

InvalidOperatorCount == "ValueError: The number of operators must be even for contraction."
InvalidOperatorType == "ValueError: The type of the operator must be type field in the list"
ChargeImbalance == "ValueError: The number of creation and annihilation operators must be equal."
NoValidContraction == "ValueError: No valid contraction found. Please check the input operators."
IncompatiblePair == "TypeError: Cannot contract these operators."
NoneNotIterable == "TypeError: 'NoneType' object is not iterable"
NoChargeAttribute == "AttributeError: object has no attribute 'charge'"
NoSortAttribute == "AttributeError: 'tuple' object has no attribute 'sort'"

\* An exception leaves contraction: its frames and locals are gone.
Raise(e) ==
    /\ pc' = "raised"
    /\ error' = e
    /\ stack' = <<>>
    /\ all_possible_contraction' = <<>>
    /\ return_list' = <<>>

Goto(label) ==
    /\ pc' = label
    /\ UNCHANGED <<error, stack, all_possible_contraction, return_list>>

harness == <<call, first_input, swapped_at, first_outcome>>

-----------------------------------------------------------------------------
(* contraction: validation, vertices, sort *)

\* lines 142-143
CheckCount ==
    /\ pc = "check_count"
    /\ IF Len(operators) % 2 # 0
       THEN Raise(InvalidOperatorCount)
       ELSE Goto("check_type")
    /\ UNCHANGED <<operators, is_list, LSZ_reduction, inner_vertices,
                   outer_vertices, harness>>

\* lines 144-145
CheckType ==
    /\ pc = "check_type"
    /\ IF ~is_list /\ ~(\A k \in 1..Len(operators) : IsOperator(operators[k]))
       THEN Raise(InvalidOperatorType)
       ELSE Goto("check_charge")
    /\ UNCHANGED <<operators, is_list, LSZ_reduction, inner_vertices,
                   outer_vertices, harness>>

RECURSIVE SumCharge(_)
SumCharge(s) ==
    IF s = <<>> THEN 0 ELSE Head(s).charge + SumCharge(Tail(s))

\* lines 146-147: sum(op.charge ...) reads .charge of every element
CheckCharge ==
    /\ pc = "check_charge"
    /\ IF \E k \in 1..Len(operators) : ~IsOperator(operators[k])
       THEN Raise(NoChargeAttribute)
       ELSE IF SumCharge(operators) # 0
       THEN Raise(ChargeImbalance)
       ELSE Goto("vertices")
    /\ UNCHANGED <<operators, is_list, LSZ_reduction, inner_vertices,
                   outer_vertices, harness>>

\* lines 149-150
Vertices ==
    /\ pc = "vertices"
    /\ inner_vertices' = {operators[k].pos : k \in
                              {m \in 1..Len(operators) : ~operators[m].external}}
    /\ outer_vertices' = {operators[k].pos : k \in
                              {m \in 1..Len(operators) : operators[m].external}}
    /\ Goto("sort")
    /\ UNCHANGED <<operators, is_list, LSZ_reduction, harness>>

\* lines 152-153: the caller's list is sorted in place
Sort ==
    /\ pc = "sort"
    /\ IF is_list
       THEN /\ operators' = SortOperators(operators)
            /\ pc' = "call_contract"
            /\ all_possible_contraction' = <<>>
            /\ UNCHANGED <<error, stack, return_list>>
       ELSE /\ Raise(NoSortAttribute)
            /\ UNCHANGED operators
    /\ UNCHANGED <<is_list, LSZ_reduction, inner_vertices, outer_vertices,
                   harness>>

-----------------------------------------------------------------------------
(* contract: the recursive search, one frame per call *)

Frame(to_be_contract, contracted, multiplicity) ==
    [to_be_contract |-> to_be_contract, contracted |-> contracted,
     multiplicity |-> multiplicity,
     i |-> 1, multiplicity_in_this_layer |-> 1]

\* line 184: contract(operators), contracted = [] and multiplicity = 1 by
\* default (the default list is never mutated)
CallContract ==
    /\ pc = "call_contract"
    /\ stack' = <<Frame(operators, <<>>, 1)>>
    /\ pc' = "contract"
    /\ UNCHANGED <<operators, is_list, LSZ_reduction, inner_vertices,
                   outer_vertices, all_possible_contraction, return_list,
                   error, harness>>

top == stack[Len(stack)]

\* A call of contract returns all_possible_contraction (line 182) or, from
\* the base case inside the recursion, None.  Its caller is either contract
\* at line 175, which drops the value and goes on with line 180 and the next
\* i, or contraction at line 184, which iterates over the list returned.
Return ==
    IF Len(stack) = 1
    THEN /\ stack' = <<>>
         /\ pc' = "assemble"
    ELSE LET caller == stack[Len(stack) - 1]
         IN /\ stack' = [SubSeq(stack, 1, Len(stack) - 1) EXCEPT
                            ![Len(stack) - 1] =
                                [caller EXCEPT
                                    !.multiplicity_in_this_layer = 1,
                                    !.i = caller.i + 1]]
            /\ UNCHANGED pc

\* lines 158-161: one pair left.  The pair is contracted with no try around
\* it and no test of LSZ_reduction; the TypeError of an incompatible pair
\* passes through every caller, none of which catches it at line 175 or 184.
\* The base case returns None: when it is the outermost call, line 184
\* iterates over None.
BaseCase ==
    /\ pc = "contract"
    /\ Len(top.to_be_contract) = 2
    /\ IF ~can_contract_with(At(top.to_be_contract, 0),
                             At(top.to_be_contract, 1))
       THEN Raise(IncompatiblePair)
       ELSE IF Len(stack) = 1
       THEN Raise(NoneNotIterable)
       ELSE /\ all_possible_contraction' =
                  Append(all_possible_contraction,
                         [propagators |->
                              Append(top.contracted,
                                     Add(At(top.to_be_contract, 0),
                                         At(top.to_be_contract, 1))),
                          multiplicity |-> top.multiplicity])
            /\ Return
            /\ UNCHANGED <<error, return_list>>
    /\ UNCHANGED <<operators, is_list, LSZ_reduction, inner_vertices,
                   outer_vertices, harness>>

\* the for loop of line 163 stands at index i of this frame
InLoop ==
    /\ pc = "contract"
    /\ Len(top.to_be_contract) # 2
    /\ top.i < Len(top.to_be_contract)

\* line 164
IdenticalSuccessor(to_be_contract, i) ==
    /\ i < Len(to_be_contract) - 1
    /\ At(to_be_contract, i) = At(to_be_contract, i + 1)

\* line 167
LSZExcluded(to_be_contract, i) ==
    /\ LSZ_reduction
    /\ At(to_be_contract, 0).external
    /\ At(to_be_contract, i).external

\* the sign flipped at the odd indices instead of the even ones
FermionicSignOddIndex(to_be_contract, i, multiplicity_in_this_layer) ==
    IF At(to_be_contract, 0).fermionic /\ (i % 2 = 1)
    THEN multiplicity_in_this_layer * (-1)
    ELSE multiplicity_in_this_layer

\* lines 173-174
FermionicSign(to_be_contract, i, multiplicity_in_this_layer) ==
    IF At(to_be_contract, 0).fermionic /\ (i % 2 = 0)
    THEN multiplicity_in_this_layer * (-1)
    ELSE multiplicity_in_this_layer

\* the slices one place early: to_be_contract[1:i-1] + to_be_contract[i:]
RemainingOffByOne(to_be_contract, i) ==
    Slice(to_be_contract, 1, i - 1)
        \o Slice(to_be_contract, i, Len(to_be_contract))

\* line 176: to_be_contract[1:i] + to_be_contract[i+1:]
Remaining(to_be_contract, i) ==
    Slice(to_be_contract, 1, i)
        \o Slice(to_be_contract, i + 1, Len(to_be_contract))

\* the loop goes to the next i by continue
Continue(layer) ==
    /\ stack' = [stack EXCEPT ![Len(stack)] =
                    [top EXCEPT !.i = top.i + 1,
                                !.multiplicity_in_this_layer = layer]]
    /\ UNCHANGED <<operators, is_list, LSZ_reduction, pc, inner_vertices,
                   outer_vertices, all_possible_contraction, return_list,
                   error, harness>>

\* lines 164-166
SkipIdentical ==
    /\ InLoop
    /\ IdenticalSuccessor(top.to_be_contract, top.i)
    /\ Continue(top.multiplicity_in_this_layer + 1)

\* lines 167-168
SkipLSZ ==
    /\ InLoop
    /\ ~IdenticalSuccessor(top.to_be_contract, top.i)
    /\ LSZExcluded(top.to_be_contract, top.i)
    /\ Continue(top.multiplicity_in_this_layer)

\* lines 169-172
SkipIncompatible ==
    /\ InLoop
    /\ ~IdenticalSuccessor(top.to_be_contract, top.i)
    /\ ~LSZExcluded(top.to_be_contract, top.i)
    /\ ~can_contract_with(At(top.to_be_contract, 0),
                          At(top.to_be_contract, top.i))
    /\ Continue(top.multiplicity_in_this_layer)

\* lines 169-179: the pair is contracted and the search goes one level down
Contract ==
    /\ InLoop
    /\ ~IdenticalSuccessor(top.to_be_contract, top.i)
    /\ ~LSZExcluded(top.to_be_contract, top.i)
    /\ can_contract_with(At(top.to_be_contract, 0),
                         At(top.to_be_contract, top.i))
    /\ LET pair == Add(At(top.to_be_contract, 0),
                       At(top.to_be_contract, top.i))
           layer == FermionicSign(top.to_be_contract, top.i,
                                  top.multiplicity_in_this_layer)
       IN stack' = Append(
               [stack EXCEPT ![Len(stack)] =
                   [top EXCEPT !.multiplicity_in_this_layer = layer]],
               Frame(Remaining(top.to_be_contract, top.i),
                     Append(top.contracted, pair),
                     top.multiplicity * layer))
    /\ UNCHANGED <<operators, is_list, LSZ_reduction, pc, inner_vertices,
                   outer_vertices, all_possible_contraction, return_list,
                   error, harness>>

\* line 182: the loop is over
LoopEnd ==
    /\ pc = "contract"
    /\ Len(top.to_be_contract) # 2
    /\ top.i >= Len(top.to_be_contract)
    /\ Return
    /\ UNCHANGED <<operators, is_list, LSZ_reduction, inner_vertices,
                   outer_vertices, all_possible_contraction, return_list,
                   error, harness>>

-----------------------------------------------------------------------------
(* contraction: the result *)

\* lines 183-189
Assemble ==
    /\ pc = "assemble"
    /\ LET kept == SelectSeq(all_possible_contraction,
                     LAMBDA c : Len(c.propagators) = Len(operators) \div 2)
       IN return_list' =
              [k \in 1..Len(kept) |->
                  [diagram |-> Diagram(outer_vertices, inner_vertices,
                                       kept[k].propagators),
                   multiplicity |-> kept[k].multiplicity]]
    /\ pc' = "check_empty"
    /\ all_possible_contraction' = <<>>
    /\ UNCHANGED <<operators, is_list, LSZ_reduction, inner_vertices,
                   outer_vertices, stack, error, harness>>

\* lines 190-192
Finish ==
    /\ pc = "check_empty"
    /\ IF return_list = <<>>
       THEN Raise(NoValidContraction)
       ELSE /\ pc' = "returned"
            /\ UNCHANGED <<stack, all_possible_contraction, return_list,
                           error>>
    /\ UNCHANGED <<operators, is_list, LSZ_reduction, inner_vertices,
                   outer_vertices, harness>>

-----------------------------------------------------------------------------
(* The inputs *)

\* Short lists over a few operators and a value that is no Operator: two
\* neutral fermions, four neutral bosons (internal and external at labels 1
\* and 2) and a charged boson pair.
SmallUniverse ==
    {Operator(p, 1, 0, TRUE, FALSE) : p \in 1..2}
        \cup {Operator(p, 2, 0, FALSE, e) : p \in 1..2, e \in BOOLEAN}
        \cup {Operator(1, 2, 1, FALSE, FALSE), Operator(2, 2, -1, FALSE, FALSE)}
        \cup {NotAnOperator}

ShortInputs == UNION {[1..n -> SmallUniverse] : n \in 0..MaxLen}

\* Longer lists of internal operators at labels 1, 2, ...: each a neutral
\* fermion, a neutral boson, or a creation or annihilation operator of a
\* charged fermion; written in sorted or in reverse order.  They start at
\* four operators, the size of the docstring's examples.
LongKinds == {"fermion", "boson", "electron+", "electron-"}

LongOperator(p, kind) ==
    CASE kind = "fermion" -> Operator(p, 1, 0, TRUE, FALSE)
      [] kind = "boson" -> Operator(p, 2, 0, FALSE, FALSE)
      [] kind = "electron+" -> Operator(p, 3, 1, TRUE, FALSE)
      [] kind = "electron-" -> Operator(p, 3, -1, TRUE, FALSE)

Reverse(s) == [k \in 1..Len(s) |-> s[Len(s) + 1 - k]]

LongInputs ==
    UNION {UNION {{[p \in 1..n |-> LongOperator(p, kinds[p])],
                   Reverse([p \in 1..n |-> LongOperator(p, kinds[p])])} :
                     kinds \in [1..n -> LongKinds]} :
              n \in {m \in 4..LongLen : m % 2 = 0}}

\* the locals of a call that has not started
Fresh ==
    /\ pc = "check_count"
    /\ inner_vertices = {}
    /\ outer_vertices = {}
    /\ stack = <<>>
    /\ all_possible_contraction = <<>>
    /\ return_list = <<>>
    /\ error = ""

NoOutcome == [pc |-> "", error |-> "", return_list |-> <<>>]

\* Either one call on a short input, or the swap test on a long input: a
\* call on the list, then a call on a copy with two adjacent elements
\* swapped.
Init ==
    /\ Fresh
    /\ call = 1
    /\ swapped_at = 0
    /\ first_outcome = NoOutcome
    /\ \/ /\ operators \in ShortInputs
          /\ is_list \in BOOLEAN
          /\ LSZ_reduction \in BOOLEAN
          /\ first_input = <<>>
       \/ /\ operators \in LongInputs
          /\ is_list = TRUE
          /\ LSZ_reduction = FALSE
          /\ first_input = operators

SwapAdjacent(s, k) ==
    [s EXCEPT ![k + 1] = s[k + 2], ![k + 2] = s[k + 1]]

\* The swap test's second call, made when the first has returned.
SecondCall ==
    /\ call = 1
    /\ first_input # <<>>
    /\ pc = "returned"
    /\ \E k \in 0..(Len(first_input) - 2) :
          /\ operators' = SwapAdjacent(first_input, k)
          /\ swapped_at' = k
    /\ first_outcome' = [pc |-> pc, error |-> error,
                         return_list |-> return_list]
    /\ call' = 2
    /\ pc' = "check_count"
    /\ inner_vertices' = {}
    /\ outer_vertices' = {}
    /\ stack' = <<>>
    /\ all_possible_contraction' = <<>>
    /\ return_list' = <<>>
    /\ error' = ""
    /\ UNCHANGED <<is_list, LSZ_reduction, first_input>>

Next ==
    \/ CheckCount
    \/ CheckType
    \/ CheckCharge
    \/ Vertices
    \/ Sort
    \/ CallContract
    \/ BaseCase
    \/ SkipIdentical
    \/ SkipLSZ
    \/ SkipIncompatible
    \/ Contract
    \/ LoopEnd
    \/ Assemble
    \/ Finish
    \/ SecondCall

Spec == Init /\ [][Next]_vars

-----------------------------------------------------------------------------
(* What the claims speak of *)

Terminal == pc \in {"returned", "raised"}

AllOperators == \A k \in 1..Len(operators) : IsOperator(operators[k])

NoTwoEqual ==
    \A j, k \in 1..Len(operators) : j # k => operators[j] # operators[k]

\* the perfect matchings of a set of indices, each a set of pairs <<i, j>>
\* with i < j
RECURSIVE Matchings(_)
Matchings(S) ==
    IF S = {}
    THEN {{}}
    ELSE LET i == CHOOSE m \in S : \A x \in S : m <= x
         IN UNION {{M \cup {<<i, j>>} : M \in Matchings(S \ {i, j})} :
                      j \in S \ {i}}

\* the perfect matchings of a sorted operator list into compatible pairs
CompatibleMatchings(ops) ==
    {M \in Matchings(1..Len(ops)) :
        \A p \in M : can_contract_with(ops[p[1]], ops[p[2]])}

\* two pairs interleave in the sorted order
Cross(p, q) == p[1] < q[1] /\ q[1] < p[2] /\ p[2] < q[2]

\* (-1)^c, c the number of crossing pairs of fermionic propagators
CrossingSign(ops, M) ==
    LET c == Cardinality({pq \in M \X M :
                 /\ Cross(pq[1], pq[2])
                 /\ ops[pq[1][1]].fermionic
                 /\ ops[pq[2][1]].fermionic})
    IN IF c % 2 = 0 THEN 1 ELSE -1

\* the propagators of a matching, as a Diagram holds them
MatchingPropagators(ops, M) ==
    LET firsts == {p[1] : p \in M}
        nth(k) == CHOOSE i \in firsts :
                      Cardinality({f \in firsts : f < i}) = k - 1
        partner(i) == CHOOSE j \in 1..Len(ops) : <<i, j>> \in M
    IN SortPropagators([k \in 1..Cardinality(M) |->
                            Add(ops[nth(k)], ops[partner(nth(k))])])

Expected(ops, M) ==
    [propagators |-> MatchingPropagators(ops, M),
     multiplicity |-> CrossingSign(ops, M)]

Entry(k) ==
    [propagators |-> return_list[k].diagram.propagators,
     multiplicity |-> return_list[k].multiplicity]

\* the returned list holds one entry per compatible perfect matching, with
\* the sign of its crossings
OneEntryPerMatching ==
    LET ops == operators
        Ms == CompatibleMatchings(ops)
        items == {Expected(ops, M) : M \in Ms}
                     \cup {Entry(k) : k \in 1..Len(return_list)}
    IN \A x \in items :
           Cardinality({k \in 1..Len(return_list) : Entry(k) = x})
               = Cardinality({M \in Ms : Expected(ops, M) = x})

-----------------------------------------------------------------------------
(* The claims *)

\* C1: with LSZ_reduction set, no returned Diagram holds a propagator made
\* of two external operators.  Stated for inputs whose external and internal
\* operators share no label, where a propagator is made of two external
\* operators exactly when both its endpoints are outer vertices.
C1_LSZExclusion ==
    (pc = "returned" /\ LSZ_reduction
         /\ inner_vertices \cap outer_vertices = {})
    => \A k \in 1..Len(return_list) :
         \A j \in 1..Len(return_list[k].diagram.propagators) :
           LET p == return_list[k].diagram.propagators[j]
           IN ~(p.initial \in outer_vertices /\ p.final \in outer_vertices)

\* C2: every returned Diagram has len(operators)/2 propagators, and every
\* label is an endpoint as many times as there are input operators at it.
C2_Completeness ==
    pc = "returned"
    => \A k \in 1..Len(return_list) :
         LET ps == return_list[k].diagram.propagators
             labels == {operators[m].pos : m \in 1..Len(operators)}
                           \cup {ps[j].initial : j \in 1..Len(ps)}
                           \cup {ps[j].final : j \in 1..Len(ps)}
         IN /\ 2 * Len(ps) = Len(operators)
            /\ \A l \in labels :
                 Cardinality({j \in 1..Len(ps) : ps[j].initial = l})
                   + Cardinality({j \in 1..Len(ps) : ps[j].final = l})
                 = Cardinality({m \in 1..Len(operators) :
                                    operators[m].pos = l})

\* a call on four operators, some charged, has returned several Diagrams
C2_Witness ==
    /\ pc = "returned"
    /\ Len(operators) = 4
    /\ Len(return_list) >= 2
    /\ \E m \in 1..4 : operators[m].charge # 0

\* C3: the TypeError of an incompatible pair never reaches the caller.
C3_IncompatiblePairNotSurfaced ==
    pc = "raised" => error # IncompatiblePair

\* the inputs C4 speaks of
C4_Applies ==
    /\ is_list
    /\ AllOperators
    /\ Len(operators) >= 4
    /\ Len(operators) % 2 = 0
    /\ NoTwoEqual
    /\ \/ \A k \in 1..Len(operators) : operators[k].fermionic
       \/ \A k \in 1..Len(operators) : ~operators[k].fermionic
    /\ ~LSZ_reduction
    /\ CompatibleMatchings(SortOperators(operators)) # {}

\* C4: for a list of four or more Operators, no two equal, all bosonic or
\* all fermionic, that has a perfect matching into compatible pairs, called
\* with LSZ_reduction = False, the call returns one entry per such matching,
\* with multiplicity 1 (bosonic) or (-1)^crossings (fermionic).
C4_ExhaustiveSigned ==
    (Terminal /\ C4_Applies) => (pc = "returned" /\ OneEntryPerMatching)

\* six fermionic operators, fifteen matchings, some with an odd number of
\* crossings
C4_Witness ==
    /\ pc = "returned"
    /\ C4_Applies
    /\ Len(operators) = 6
    /\ operators[1].fermionic
    /\ Len(return_list) = 15
    /\ \E k \in 1..Len(return_list) : return_list[k].multiplicity = -1

\* the swap test on four fermionic operators has made its second call
C5_SwapTest ==
    /\ call = 2
    /\ Terminal
    /\ first_outcome.pc = "returned"
    /\ Len(first_input) = 4
    /\ \A k \in 1..4 : first_input[k].fermionic

\* the Diagram contracts the two swapped operators with each other (the swap
\* test's operators stand at distinct labels)
C5_ContractsSwapped(d) ==
    \E j \in 1..Len(d.propagators) :
        {d.propagators[j].initial, d.propagators[j].final}
            = {At(first_input, swapped_at).pos,
               At(first_input, swapped_at + 1).pos}

\* both calls returned, and each Diagram of one call equals one of the other
C5_SameDiagrams ==
    /\ pc = "returned"
    /\ \A j \in 1..Len(first_outcome.return_list) :
         \E k \in 1..Len(return_list) :
            DiagramEq(first_outcome.return_list[j].diagram,
                      return_list[k].diagram)
    /\ \A k \in 1..Len(return_list) :
         \E j \in 1..Len(first_outcome.return_list) :
            DiagramEq(first_outcome.return_list[j].diagram,
                      return_list[k].diagram)

C6_UniqueDiagrams ==
    pc = "returned"
    => \A j, k \in 1..Len(return_list) :
         j # k => ~DiagramEq(return_list[j].diagram, return_list[k].diagram)

\* C7: an even-length list holding an element that is no Operator ends with
\* the InvalidOperatorType ValueError and with no other error.
C7_ElementTypeValidation ==
    (/\ Terminal
     /\ is_list
     /\ Len(operators) % 2 = 0
     /\ ~AllOperators)
    => (pc = "raised" /\ error = InvalidOperatorType)

\* C8: a list of exactly two compatible operators returns one entry, the
\* propagator of the two with multiplicity 1.
C8_MinimalInput ==
    (/\ Terminal
     /\ is_list
     /\ Len(operators) = 2
     /\ AllOperators
     /\ can_contract_with(operators[1], operators[2]))
    => /\ pc = "returned"
       /\ Len(return_list) = 1
       /\ return_list[1].multiplicity = 1
       /\ return_list[1].diagram.propagators
            = <<Add(operators[1], operators[2])>>

\* C9: in every layer, the multiplicity passed down with the pair
\* (to_be_contract[0], to_be_contract[i]) is the incoming multiplicity times
\* +1 or -1 times the number of operators among to_be_contract[1:] equal to
\* to_be_contract[i].
C9_PerCandidateCount ==
    \A j \in 2..Len(stack) :
        LET caller == stack[j - 1]
            k == Cardinality({m \in 1..(Len(caller.to_be_contract) - 1) :
                     At(caller.to_be_contract, m)
                         = At(caller.to_be_contract, caller.i)})
        IN stack[j].multiplicity \in {caller.multiplicity * k,
                                      -(caller.multiplicity * k)}

\* C10: for a list holding both fermionic and bosonic operators, no two
\* equal, called with LSZ_reduction = False, every returned entry is a
\* perfect matching into compatible pairs whose multiplicity is
\* (-1)^c, c the number of crossing pairs of its fermionic propagators.
C10_MixedSign ==
    (/\ pc = "returned"
     /\ ~LSZ_reduction
     /\ NoTwoEqual
     /\ \E k \in 1..Len(operators) : operators[k].fermionic
     /\ \E k \in 1..Len(operators) : ~operators[k].fermionic)
    => \A k \in 1..Len(return_list) :
         \E M \in CompatibleMatchings(operators) :
            Entry(k) = Expected(operators, M)

=============================================================================
